---- MODULE Spec2Model ----
(***************************************************************************)
(* Spaced-repetition progress tracker of the Portuguese learning backend:  *)
(* routes/flashcards.js (getProgressEntry, setProgressEntry, GET /,         *)
(* POST /review) and the progress writer of routes/words.js (PUT           *)
(* /progress).                                                             *)
(*                                                                         *)
(* Numbers.  ease is kept in hundredths (2.5 is 250).  interval is an      *)
(* exact fraction <<n, d>> of days in lowest terms; <<0, 0>> stands for a  *)
(* value that is not a number (undefined).  The arithmetic is exact: the   *)
(* rounding of IEEE doubles is not modelled.  A timestamp is <<day, ms>>,  *)
(* ms in 0..DAY_MS-1; NullTime stands for null/undefined.                  *)
(*                                                                         *)
(* Containers.  user.progress.words is one JS object that holds the keys  *)
(* "mastered" and "needsReview" and one key per word id; a word id is a   *)
(* 24-digit hex string, so the two kinds of key never collide and the      *)
(* per-word keys are kept as the function `words`.  An absent array and an *)
(* empty array are read alike by every line of the code, so only           *)
(* user.progress itself can be absent (hasProgress).                       *)
(***************************************************************************)
EXTENDS Integers, Sequences, FiniteSets, TLC

\* ------------------------------------------------------------------ bounds
MaxReviews == 2
MaxClock == 1

\* --------------------------------------------------------- program constants
DefaultEase == 250
EaseStep == 15
EaseCap == 300
EaseFloor == 130
HardEase == 180
MasteredEase == 260
NeedsEase == 200
MasteredDays == 7
DAY_MS == 86400000

NoNum == 0 - 1
NaNIv == <<0, 0>>
NullTime == <<0 - 1, 0>>

\* ------------------------------------------------------------- identifiers
Reqs == {"r1", "r2"}
UserIds == {"u1"}
Catalog == {"w1", "w2"}
WellFormedIds == {"u1", "u9", "w1", "w2", "w9"}
TokenIds == {"u1", "u9", "bad"}
BodyWordIds == {"w1", "w2", "w9", "bad", ""}
Outcomes == {"easy", "medium", "hard"}
BodyDifficulties == {"easy", "medium", "hard", "again", ""}

\* ---------------------------------------------------------------- fractions
RECURSIVE GCD(_, _)
GCD(a, b) == IF b = 0 THEN a ELSE GCD(b, a % b)

Frac(n, d) == LET g == GCD(n, d) IN <<n \div g, d \div g>>
FracOfInt(k) == <<k, 1>>
FracMul(a, b) == Frac(a[1] * b[1], a[2] * b[2])
FracLess(a, b) == a[1] * b[2] < b[1] * a[2]
FracMax(a, b) == IF FracLess(a, b) THEN b ELSE a
IsNumIv(iv) == iv[2] # 0

\* ease in hundredths as a fraction
EaseFrac(e) == Frac(e, 100)
Min(a, b) == IF a < b THEN a ELSE b
Max(a, b) == IF a < b THEN b ELSE a

\* floor(r * DAY_MS / d) for 0 <= r < d, in three steps that stay in 32 bits
DayFractionMs(r, d) ==
  LET t1 == r * 600
      q1 == t1 \div d
      r1 == t1 % d
      t2 == r1 * 600
      q2 == t2 \div d
      r2 == t2 % d
      q3 == (r2 * 240) \div d
  IN (q1 * 600 + q2) * 240 + q3


\* the interval is added in whole days
AddInterval_WholeDays(now, iv) ==
  <<now[1] + (iv[1] \div iv[2]), now[2]>>

\* new Date(now.getTime() + interval * 24 * 60 * 60 * 1000): whole milliseconds
AddInterval(now, iv) ==
  LET whole == iv[1] \div iv[2]
      ms == now[2] + DayFractionMs(iv[1] % iv[2], iv[2])
  IN <<now[1] + whole + (ms \div DAY_MS), ms % DAY_MS>>

\* ------------------------------------------------------------------ records
Entry(e, iv, rc, lr, nr) ==
  [ease |-> e, interval |-> iv, reviewCount |-> rc, lastReviewed |-> lr, nextReview |-> nr]

HistoryRecord(w, e) ==
  [wordId |-> w, ease |-> e.ease, interval |-> e.interval, reviewCount |-> e.reviewCount,
   lastReviewed |-> e.lastReviewed, nextReview |-> e.nextReview]

DefaultEntry == Entry(DefaultEase, FracOfInt(0), 0, NullTime, NullTime)

NoWords == [w \in {} |-> DefaultEntry]

\* user.progress: `words` holds the per-word entries keyed by word id (the
\* helpers' map), `mastered` / `needsReview` are words.mastered and
\* words.needsReview, `absent` names the containers the stored object lacks
\* (their content is then empty), `map` and `history` are words.map and
\* words.history of the schema with per-word progress
UserDoc(hp, ws, m, n, h) ==
  [hasProgress |-> hp, words |-> ws, mastered |-> m, needsReview |-> n, wordsHistory |-> h,
   absent |-> {}, map |-> NoWords, history |-> <<>>]
Containers == {"words", "wordsHistory", "mastered", "needsReview"}
\* what setProgressEntry does not touch stays as it was
KeepRest(base, doc) == [doc EXCEPT !.map = base.map, !.history = base.history]
NewUser == UserDoc(TRUE, NoWords, <<>>, <<>>, <<>>)


\* --------------------------------------------------------- array primitives
\* Array.prototype.findIndex on an array of ids; 0 stands for JavaScript's -1
RECURSIVE FindIdFrom(_, _, _)
FindIdFrom(arr, w, i) ==
  IF i > Len(arr) THEN 0 ELSE IF arr[i] = w THEN i ELSE FindIdFrom(arr, w, i + 1)
FindId(arr, w) == FindIdFrom(arr, w, 1)

\* findIndex / find on wordsHistory by String(e.wordId) === String(wordId)
RECURSIVE FindHistoryFrom(_, _, _)
FindHistoryFrom(h, w, i) ==
  IF i > Len(h) THEN 0 ELSE IF h[i].wordId = w THEN i ELSE FindHistoryFrom(h, w, i + 1)
FindHistory(h, w) == FindHistoryFrom(h, w, 1)

\* arr.splice(i, 1)
Splice(arr, i) == SubSeq(arr, 1, i - 1) \o SubSeq(arr, i + 1, Len(arr))

Has(arr, w) == \E i \in 1..Len(arr) : arr[i] = w
Occurrences(arr, w) == Cardinality({i \in 1..Len(arr) : arr[i] = w})

\* ----------------------------------------------------------------- helpers
isValidObjectId(id) == id \in WellFormedIds

\* x || 0 for a count that may be undefined
CountOrZero(rc) == IF rc = NoNum THEN 0 ELSE rc

\* the value getProgressEntry returns: null (isNull) or an entry
Null == [isNull |-> TRUE, entry |-> DefaultEntry]
Some(e) == [isNull |-> FALSE, entry |-> e]

\* a call that also empties the history log
EnsureShapes_Clear(user) ==
  IF ~user.hasProgress THEN user
  ELSE [user EXCEPT !.absent = {}, !.wordsHistory = <<>>]

\* what a call of getProgressEntry leaves of the object it was given: the
\* missing containers are created empty
EnsureShapes(user) ==
  IF ~user.hasProgress THEN user
  ELSE [user EXCEPT !.absent = {}]

getProgressEntry(user, wordId) ==
  IF ~user.hasProgress THEN Null
  ELSE IF wordId \in DOMAIN user.words THEN Some(user.words[wordId])
  ELSE LET idx == FindHistory(user.wordsHistory, wordId) IN
       IF idx # 0
       THEN LET historyEntry == user.wordsHistory[idx] IN
            Some(Entry(IF historyEntry.ease # NoNum THEN historyEntry.ease ELSE DefaultEase,
                       IF IsNumIv(historyEntry.interval) THEN historyEntry.interval
                                                         ELSE FracOfInt(0),
                       CountOrZero(historyEntry.reviewCount),
                       historyEntry.lastReviewed,
                       historyEntry.nextReview))
       ELSE Some(DefaultEntry)

isMastered_AtLeast(entry) ==
  ~FracLess(entry.interval, FracOfInt(MasteredDays)) /\ entry.ease >= MasteredEase

isMastered(entry) ==
  ~FracLess(entry.interval, FracOfInt(MasteredDays)) /\ entry.ease > MasteredEase

isNeeds(entry) ==
  entry.ease < NeedsEase \/ FracLess(entry.interval, FracOfInt(MasteredDays))

\* the word is pushed to needsReview without the findIndex test
setProgressEntry_PushAgain(user, wordId, entry) ==
  LET base == IF user.hasProgress THEN user ELSE NewUser
      idx == FindHistory(base.wordsHistory, wordId)
      historyObj == HistoryRecord(wordId, entry)
      history == IF idx = 0 THEN Append(base.wordsHistory, historyObj)
                 ELSE [base.wordsHistory EXCEPT ![idx] = historyObj]
      masteredIdx == FindId(base.mastered, wordId)
      needsIdx == FindId(base.needsReview, wordId)
      mastered ==
        IF isMastered(entry)
        THEN (IF masteredIdx = 0 THEN Append(base.mastered, wordId) ELSE base.mastered)
        ELSE (IF masteredIdx # 0 THEN Splice(base.mastered, masteredIdx) ELSE base.mastered)
      needsReview ==
        IF isMastered(entry)
        THEN (IF needsIdx # 0 THEN Splice(base.needsReview, needsIdx) ELSE base.needsReview)
        ELSE IF isNeeds(entry)
        THEN Append(base.needsReview, wordId)
        ELSE (IF needsIdx # 0 THEN Splice(base.needsReview, needsIdx) ELSE base.needsReview)
  IN KeepRest(base, UserDoc(TRUE,
             (wordId :> Entry(entry.ease, entry.interval, entry.reviewCount,
                              entry.lastReviewed, entry.nextReview)) @@ base.words,
             mastered, needsReview, history))

\* every call appends a history record
setProgressEntry_Push(user, wordId, entry) ==
  LET base == IF user.hasProgress THEN user ELSE NewUser
      idx == FindHistory(base.wordsHistory, wordId)
      historyObj == HistoryRecord(wordId, entry)
      history == Append(base.wordsHistory, historyObj)
      masteredIdx == FindId(base.mastered, wordId)
      needsIdx == FindId(base.needsReview, wordId)
      mastered ==
        IF isMastered(entry)
        THEN (IF masteredIdx = 0 THEN Append(base.mastered, wordId) ELSE base.mastered)
        ELSE (IF masteredIdx # 0 THEN Splice(base.mastered, masteredIdx) ELSE base.mastered)
      needsReview ==
        IF isMastered(entry)
        THEN (IF needsIdx # 0 THEN Splice(base.needsReview, needsIdx) ELSE base.needsReview)
        ELSE IF isNeeds(entry)
        THEN (IF needsIdx = 0 THEN Append(base.needsReview, wordId) ELSE base.needsReview)
        ELSE (IF needsIdx # 0 THEN Splice(base.needsReview, needsIdx) ELSE base.needsReview)
  IN KeepRest(base, UserDoc(TRUE,
             (wordId :> Entry(entry.ease, entry.interval, entry.reviewCount,
                              entry.lastReviewed, entry.nextReview)) @@ base.words,
             mastered, needsReview, history))

\* the word's history record is removed and the new one appended
setProgressEntry_MoveToEnd(user, wordId, entry) ==
  LET base == IF user.hasProgress THEN user ELSE NewUser
      idx == FindHistory(base.wordsHistory, wordId)
      historyObj == HistoryRecord(wordId, entry)
      history == IF idx = 0 THEN Append(base.wordsHistory, historyObj)
                 ELSE Append(Splice(base.wordsHistory, idx), historyObj)
      masteredIdx == FindId(base.mastered, wordId)
      needsIdx == FindId(base.needsReview, wordId)
      mastered ==
        IF isMastered(entry)
        THEN (IF masteredIdx = 0 THEN Append(base.mastered, wordId) ELSE base.mastered)
        ELSE (IF masteredIdx # 0 THEN Splice(base.mastered, masteredIdx) ELSE base.mastered)
      needsReview ==
        IF isMastered(entry)
        THEN (IF needsIdx # 0 THEN Splice(base.needsReview, needsIdx) ELSE base.needsReview)
        ELSE IF isNeeds(entry)
        THEN (IF needsIdx = 0 THEN Append(base.needsReview, wordId) ELSE base.needsReview)
        ELSE (IF needsIdx # 0 THEN Splice(base.needsReview, needsIdx) ELSE base.needsReview)
  IN KeepRest(base, UserDoc(TRUE,
             (wordId :> Entry(entry.ease, entry.interval, entry.reviewCount,
                              entry.lastReviewed, entry.nextReview)) @@ base.words,
             mastered, needsReview, history))

\* the entry is written into the map only when the word has none
setProgressEntry_KeepMap(user, wordId, entry) ==
  LET base == IF user.hasProgress THEN user ELSE NewUser
      idx == FindHistory(base.wordsHistory, wordId)
      historyObj == HistoryRecord(wordId, entry)
      history == IF idx = 0 THEN Append(base.wordsHistory, historyObj)
                 ELSE [base.wordsHistory EXCEPT ![idx] = historyObj]
      masteredIdx == FindId(base.mastered, wordId)
      needsIdx == FindId(base.needsReview, wordId)
      mastered ==
        IF isMastered(entry)
        THEN (IF masteredIdx = 0 THEN Append(base.mastered, wordId) ELSE base.mastered)
        ELSE (IF masteredIdx # 0 THEN Splice(base.mastered, masteredIdx) ELSE base.mastered)
      needsReview ==
        IF isMastered(entry)
        THEN (IF needsIdx # 0 THEN Splice(base.needsReview, needsIdx) ELSE base.needsReview)
        ELSE IF isNeeds(entry)
        THEN (IF needsIdx = 0 THEN Append(base.needsReview, wordId) ELSE base.needsReview)
        ELSE (IF needsIdx # 0 THEN Splice(base.needsReview, needsIdx) ELSE base.needsReview)
  IN KeepRest(base, UserDoc(TRUE,
             base.words @@ (wordId :> Entry(entry.ease, entry.interval, entry.reviewCount,
                              entry.lastReviewed, entry.nextReview)),
             mastered, needsReview, history))

setProgressEntry(user, wordId, entry) ==
  LET base == IF user.hasProgress THEN user ELSE NewUser
      idx == FindHistory(base.wordsHistory, wordId)
      historyObj == HistoryRecord(wordId, entry)
      history == IF idx = 0 THEN Append(base.wordsHistory, historyObj)
                 ELSE [base.wordsHistory EXCEPT ![idx] = historyObj]
      masteredIdx == FindId(base.mastered, wordId)
      needsIdx == FindId(base.needsReview, wordId)
      mastered ==
        IF isMastered(entry)
        THEN (IF masteredIdx = 0 THEN Append(base.mastered, wordId) ELSE base.mastered)
        ELSE (IF masteredIdx # 0 THEN Splice(base.mastered, masteredIdx) ELSE base.mastered)
      needsReview ==
        IF isMastered(entry)
        THEN (IF needsIdx # 0 THEN Splice(base.needsReview, needsIdx) ELSE base.needsReview)
        ELSE IF isNeeds(entry)
        THEN (IF needsIdx = 0 THEN Append(base.needsReview, wordId) ELSE base.needsReview)
        ELSE (IF needsIdx # 0 THEN Splice(base.needsReview, needsIdx) ELSE base.needsReview)
  IN KeepRest(base, UserDoc(TRUE,
             (wordId :> Entry(entry.ease, entry.interval, entry.reviewCount,
                              entry.lastReviewed, entry.nextReview)) @@ base.words,
             mastered, needsReview, history))

\* -------------------------------------------------------------- scheduling
\* POST /review, lines 335-350: the previous values after normalisation
PrevOrDefault(got) == IF got.isNull THEN DefaultEntry ELSE got.entry
PrevEase(prev) == IF prev.ease # NoNum THEN prev.ease ELSE DefaultEase
PrevInterval(prev) == IF IsNumIv(prev.interval) THEN prev.interval ELSE FracOfInt(0)
\* (interval || 1)
IntervalOrOne(iv) == IF iv[1] = 0 THEN FracOfInt(1) ELSE iv

\* the ease is incremented before the interval is computed
NextInterval_EaseFirst(difficulty, ease, interval) ==
  IF difficulty = "easy"
  THEN FracMax(FracOfInt(1),
               FracMul(IntervalOrOne(interval), EaseFrac(Min(EaseCap, ease + EaseStep))))
  ELSE IF difficulty = "medium"
  THEN FracMax(Frac(1, 2), FracMul(IntervalOrOne(interval), Frac(8, 10)))
  ELSE Frac(1, 10)

\* medium without the zero-to-one rule for the multiplicand
NextInterval_NoOne(difficulty, ease, interval) ==
  IF difficulty = "easy"
  THEN FracMax(FracOfInt(1), FracMul(IntervalOrOne(interval), EaseFrac(ease)))
  ELSE IF difficulty = "medium"
  THEN FracMax(Frac(1, 2), FracMul(interval, Frac(8, 10)))
  ELSE Frac(1, 10)

NextInterval(difficulty, ease, interval) ==
  IF difficulty = "easy"
  THEN FracMax(FracOfInt(1), FracMul(IntervalOrOne(interval), EaseFrac(ease)))
  ELSE IF difficulty = "medium"
  THEN FracMax(Frac(1, 2), FracMul(IntervalOrOne(interval), Frac(8, 10)))
  ELSE Frac(1, 10)

\* hard lowers the ease relative to the previous one, floored like medium
NextEase_HardRelative(difficulty, ease) ==
  IF difficulty = "easy" THEN Min(EaseCap, ease + EaseStep)
  ELSE IF difficulty = "medium" THEN Max(EaseFloor, ease - EaseStep)
  ELSE Max(EaseFloor, Min(HardEase, ease - EaseStep))

NextEase(difficulty, ease) ==
  IF difficulty = "easy" THEN Min(EaseCap, ease + EaseStep)
  ELSE IF difficulty = "medium" THEN Max(EaseFloor, ease - EaseStep)
  ELSE HardEase

\* a review of an entry that has a count does not count again
Schedule_Dedup(prev, difficulty, now) ==
  LET ease == PrevEase(prev)
      interval == PrevInterval(prev)
      newInterval == NextInterval(difficulty, ease, interval)
  IN Entry(NextEase(difficulty, ease), newInterval, Max(1, CountOrZero(prev.reviewCount)),
           now, AddInterval(now, newInterval))

Schedule(prev, difficulty, now) ==
  LET ease == PrevEase(prev)
      interval == PrevInterval(prev)
      newInterval == NextInterval(difficulty, ease, interval)
  IN Entry(NextEase(difficulty, ease), newInterval, CountOrZero(prev.reviewCount) + 1,
           now, AddInterval(now, newInterval))


\* ------------------------------------------------- progress documents a
\* client can store with PUT /progress (routes/words.js): the older shapes
\* the helpers of routes/flashcards.js are written to read
T0 == <<0, 0>>
LegacyDocs ==
  { \* no progress object at all
    UserDoc(FALSE, NoWords, <<>>, <<>>, <<>>),
    \* an empty progress object
    [UserDoc(TRUE, NoWords, <<>>, <<>>, <<>>) EXCEPT !.absent = Containers],
    \* only the boolean lists (models/User.js): w1 listed in both, w2 twice
    [UserDoc(TRUE, NoWords, <<"w1", "w2", "w2">>, <<"w1">>, <<>>)
       EXCEPT !.absent = {"wordsHistory"}],
    \* w1 listed twice as mastered, map entry without numbers
    UserDoc(TRUE, "w1" :> Entry(NoNum, NaNIv, NoNum, NullTime, NullTime),
            <<"w1", "w1">>, <<>>, <<>>),
    \* w1 only in the history log, two records
    UserDoc(TRUE, NoWords, <<"w1">>, <<>>,
            << HistoryRecord("w1", Entry(245, FracOfInt(10), 4, T0, NullTime)),
               HistoryRecord("w2", Entry(NoNum, NaNIv, NoNum, NullTime, NullTime)),
               HistoryRecord("w1", Entry(295, FracOfInt(20), 5, T0, NullTime)) >>),
    \* ease below the floor; ease 2.5 / interval 10
    UserDoc(TRUE, ("w1" :> Entry(50, Frac(1, 10), 1, T0, T0))
                  @@ ("w2" :> Entry(250, FracOfInt(10), 2, T0, T0)),
            <<>>, <<"w1">>, <<>>),
    \* ease above the cap, interval 8.75
    UserDoc(TRUE, "w1" :> Entry(340, Frac(35, 4), 2, T0, T0), <<"w1">>, <<>>,
            << HistoryRecord("w1", Entry(250, FracOfInt(1), 1, T0, T0)) >>),
    \* ease 2.15 / interval 10 and ease 1.4 / interval 0.5
    UserDoc(TRUE, ("w1" :> Entry(215, FracOfInt(10), 3, T0, T0))
                  @@ ("w2" :> Entry(140, Frac(1, 2), 1, T0, T0)),
            <<>>, <<"w2", "w2">>, <<>>),
    \* ease 2.95 / interval 20 and ease 2.75 / interval 10
    UserDoc(TRUE, ("w1" :> Entry(295, FracOfInt(20), 6, T0, T0))
                  @@ ("w2" :> Entry(275, FracOfInt(10), 2, T0, T0)),
            <<"w1", "w2">>, <<>>, <<>>) }

\* --------------------------------------------------------------------- state
VARIABLES
  db,        \* the users collection: user id -> persisted progress document
  clock,     \* the last value Date.now() returned, in ms since the start of the run
  pc,        \* per request slot of POST /review: idle, findUser, findWord, save
  req,       \* per slot: userId (from the token), wordId and difficulty (body)
  loaded,    \* per slot: the document User.findById returned
  user,      \* per slot: the in-memory document the handler mutates
  got,       \* per slot: what getProgressEntry returned to the handler
  prev,      \* per slot: the previous entry the handler read
  updated,   \* per slot: the entry the handler computed
  cls,       \* per slot: isMastered / isNeeds as setProgressEntry computed them
  resp,      \* HTTP status of the most recent response (0: none yet)
  reviews,   \* number of POST /review requests received
  okCount,   \* per word: number of reviews answered 200
  listed     \* what GET / computed, while its response is the most recent one

vars == <<db, clock, pc, req, loaded, user, got, prev, updated, cls, resp, reviews, okCount,
         listed>>

NoReq == [userId |-> "", wordId |-> "", difficulty |-> ""]
NoCls == [isMastered |-> FALSE, isNeeds |-> FALSE]
NoList == [user |-> NewUser, items |-> <<>>]

Init ==
  /\ db = [u \in UserIds |-> NewUser]
  /\ clock = 0
  /\ pc = [r \in Reqs |-> "idle"]
  /\ req = [r \in Reqs |-> NoReq]
  /\ loaded = [r \in Reqs |-> NewUser]
  /\ user = [r \in Reqs |-> NewUser]
  /\ got = [r \in Reqs |-> Null]
  /\ prev = [r \in Reqs |-> DefaultEntry]
  /\ updated = [r \in Reqs |-> DefaultEntry]
  /\ cls = [r \in Reqs |-> NoCls]
  /\ resp = 0
  /\ reviews = 0
  /\ okCount = [w \in Catalog |-> 0]
  /\ listed = NoList

\* PUT /progress: the body's progress object replaces the stored one, whatever
\* it held; the bodies are the older shapes of the progress document.
PutProgress(u, progress) ==
  /\ db' = [db EXCEPT ![u] = progress]
  /\ UNCHANGED <<clock, pc, req, loaded, user, got, prev, updated, cls, resp, reviews, okCount>>
  /\ listed' = NoList

\* the response is sent; the handler's locals are gone and the slot is free
Finish(r, status) ==
  /\ pc' = [pc EXCEPT ![r] = "idle"]
  /\ resp' = status
  /\ req' = [req EXCEPT ![r] = NoReq]
  /\ loaded' = [loaded EXCEPT ![r] = NewUser]
  /\ user' = [user EXCEPT ![r] = NewUser]
  /\ got' = [got EXCEPT ![r] = Null]
  /\ prev' = [prev EXCEPT ![r] = DefaultEntry]
  /\ updated' = [updated EXCEPT ![r] = DefaultEntry]
  /\ cls' = [cls EXCEPT ![r] = NoCls]

\* request slots are interchangeable: a request takes the first free one
FirstFree(r) == pc[r] = "idle" /\ (r = "r2" => pc["r1"] # "idle")


\* validation without the identifier check
ReviewStart_NoIdCheck(r, userId, wordId, difficulty) ==
  /\ FirstFree(r)
  /\ reviews < MaxReviews
  /\ reviews' = reviews + 1
  /\ IF wordId = "" \/ difficulty = ""
     THEN Finish(r, 400)
     ELSE /\ pc' = [pc EXCEPT ![r] = "findUser"]
          /\ req' = [req EXCEPT ![r] = [userId |-> userId, wordId |-> wordId,
                                        difficulty |-> difficulty]]
          /\ UNCHANGED <<loaded, user, got, prev, updated, cls, resp>>
  /\ UNCHANGED <<db, clock, okCount>>
  /\ listed' = NoList

\* POST /review up to the first await: input validation, then User.findById
ReviewStart(r, userId, wordId, difficulty) ==
  /\ FirstFree(r)
  /\ reviews < MaxReviews
  /\ reviews' = reviews + 1
  /\ IF wordId = "" \/ difficulty = ""
     THEN Finish(r, 400)
     ELSE IF ~isValidObjectId(userId) \/ ~isValidObjectId(wordId)
     THEN Finish(r, 400)
     ELSE /\ pc' = [pc EXCEPT ![r] = "findUser"]
          /\ req' = [req EXCEPT ![r] = [userId |-> userId, wordId |-> wordId,
                                        difficulty |-> difficulty]]
          /\ UNCHANGED <<loaded, user, got, prev, updated, cls, resp>>
  /\ UNCHANGED <<db, clock, okCount>>
  /\ listed' = NoList

\* User.findById resolves; Word.findById is issued
ReviewFindUser(r) ==
  /\ pc[r] = "findUser"
  /\ IF req[r].userId \in DOMAIN db
     THEN /\ pc' = [pc EXCEPT ![r] = "findWord"]
          /\ loaded' = [loaded EXCEPT ![r] = db[req[r].userId]]
          /\ user' = [user EXCEPT ![r] = db[req[r].userId]]
          /\ UNCHANGED <<resp, req, got, prev, updated, cls>>
     ELSE Finish(r, 404)
  /\ UNCHANGED <<db, clock, reviews, okCount>>
  /\ listed' = NoList


\* the handler goes on without the word lookup
ReviewFindWord_NoLookup(r, elapsed) ==
  /\ pc[r] = "findWord"
  /\ clock + elapsed <= MaxClock
  /\ LET wordId == req[r].wordId
         now == <<0, clock + elapsed>>
         g == getProgressEntry(user[r], wordId)
         p == PrevOrDefault(g)
         e == Schedule(p, req[r].difficulty, now)
     IN /\ clock' = clock + elapsed
        /\ got' = [got EXCEPT ![r] = g]
        /\ prev' = [prev EXCEPT ![r] = p]
        /\ updated' = [updated EXCEPT ![r] = e]
        /\ cls' = [cls EXCEPT ![r] = [isMastered |-> isMastered(e),
                                      isNeeds |-> isNeeds(e)]]
        /\ user' = [user EXCEPT ![r] = setProgressEntry(EnsureShapes(user[r]), wordId, e)]
        /\ pc' = [pc EXCEPT ![r] = "save"]
        /\ UNCHANGED <<loaded, resp, req>>
  /\ UNCHANGED <<db, reviews, okCount>>
  /\ listed' = NoList

\* Word.findById resolves; the handler schedules at time now (the clock has
\* advanced by elapsed ms since it was last read), calls setProgressEntry and
\* issues user.save()
ReviewFindWord(r, elapsed) ==
  /\ pc[r] = "findWord"
  /\ clock + elapsed <= MaxClock
  /\ IF req[r].wordId \in Catalog
     THEN LET wordId == req[r].wordId
              now == <<0, clock + elapsed>>
              g == getProgressEntry(user[r], wordId)
              p == PrevOrDefault(g)
              e == Schedule(p, req[r].difficulty, now)
          IN /\ clock' = clock + elapsed
             /\ got' = [got EXCEPT ![r] = g]
             /\ prev' = [prev EXCEPT ![r] = p]
             /\ updated' = [updated EXCEPT ![r] = e]
             /\ cls' = [cls EXCEPT ![r] = [isMastered |-> isMastered(e),
                                           isNeeds |-> isNeeds(e)]]
             /\ user' = [user EXCEPT ![r] = setProgressEntry(EnsureShapes(user[r]), wordId, e)]
             /\ pc' = [pc EXCEPT ![r] = "save"]
             /\ UNCHANGED <<loaded, resp, req>>
     ELSE /\ elapsed = 0
          /\ Finish(r, 404)
          /\ UNCHANGED clock
  /\ UNCHANGED <<db, reviews, okCount>>
  /\ listed' = NoList


\* a save that persists the map and not the history or the lists
ReviewSave_MapOnly(r) ==
  /\ pc[r] = "save"
  /\ db' = [db EXCEPT ![req[r].userId].words = user[r].words]
  /\ okCount' = [okCount EXCEPT ![req[r].wordId] = @ + 1]
  /\ Finish(r, 200)
  /\ UNCHANGED <<clock, reviews>>
  /\ listed' = NoList

\* a save that writes only the reviewed word into the stored document
ReviewSave_Merge(r) ==
  /\ pc[r] = "save"
  /\ db' = [db EXCEPT ![req[r].userId] = setProgressEntry(@, req[r].wordId, updated[r])]
  /\ okCount' = [okCount EXCEPT ![req[r].wordId] = @ + 1]
  /\ Finish(r, 200)
  /\ UNCHANGED <<clock, reviews>>
  /\ listed' = NoList

\* user.save() resolves: the whole in-memory document is written
ReviewSave(r) ==
  /\ pc[r] = "save"
  /\ db' = [db EXCEPT ![req[r].userId] = user[r]]
  /\ okCount' = [okCount EXCEPT ![req[r].wordId] = @ + 1]
  /\ Finish(r, 200)
  /\ UNCHANGED <<clock, reviews>>
  /\ listed' = NoList


\* a failed save that has written the map before it fails
ReviewSaveFails_Partial(r) ==
  /\ pc[r] = "save"
  /\ db' = [db EXCEPT ![req[r].userId].words = user[r].words]
  /\ Finish(r, 500)
  /\ UNCHANGED <<clock, reviews, okCount>>
  /\ listed' = NoList

\* user.save() rejects: the catch block answers 500
ReviewSaveFails(r) ==
  /\ pc[r] = "save"
  /\ Finish(r, 500)
  /\ UNCHANGED <<db, clock, reviews, okCount>>
  /\ listed' = NoList

\* no POST /review is in flight
Quiet == \A q \in Reqs : pc[q] = "idle"

\* ------------------------------------------------------------------ GET /
\* Word.find().sort({ portuguese: 1 })
CatalogOrder == <<"w1", "w2">>

\* one element of wordsWithProgress: the word with `progress || {}` made
\* client-friendly; `progress` is what getProgressEntry returned
Item(wordId, progress) ==
  [wordId |-> wordId,
   progress |-> progress,
   ease |-> IF ~progress.isNull /\ progress.entry.ease # NoNum
            THEN progress.entry.ease ELSE DefaultEase,
   interval |-> IF ~progress.isNull /\ IsNumIv(progress.entry.interval)
                THEN progress.entry.interval ELSE FracOfInt(0),
   reviewCount |-> IF progress.isNull THEN 0 ELSE CountOrZero(progress.entry.reviewCount),
   lastReviewed |-> IF progress.isNull THEN NullTime ELSE progress.entry.lastReviewed,
   nextReview |-> IF progress.isNull THEN NullTime ELSE progress.entry.nextReview]

\* words.map(...) over the lean user object, which every call of
\* getProgressEntry may touch
RECURSIVE wordsWithProgress(_, _, _)
wordsWithProgress(lean, words, i) ==
  IF i > Len(words) THEN [user |-> lean, items |-> <<>>]
  ELSE LET rest == wordsWithProgress(EnsureShapes(lean), words, i + 1)
       IN [user |-> rest.user,
           items |-> <<Item(words[i], getProgressEntry(lean, words[i]))>> \o rest.items]

\* GET /: the catalog merged with the caller's progress
List(userId) ==
  /\ Quiet
  /\ IF ~isValidObjectId(userId)
     THEN resp' = 400 /\ listed' = NoList
     ELSE IF userId \notin DOMAIN db
     THEN resp' = 404 /\ listed' = NoList
     ELSE /\ resp' = 200
          /\ listed' = wordsWithProgress(db[userId], CatalogOrder, 1)
  /\ UNCHANGED <<db, clock, pc, req, loaded, user, got, prev, updated, cls, reviews, okCount>>

\* ------------------------------------------------------ PUT /api/words/:id
ParamWordIds == {"w1", "w2", "w9", "bad"}
\* request bodies: {} and a full entry
PutBodies ==
  { Entry(NoNum, NaNIv, NoNum, NullTime, NullTime),
    Entry(280, FracOfInt(10), 3, T0, <<10, 0>>) }

\* the document Mongoose hands to a handler: the schema's defaults where the
\* stored one has no progress
Hydrated(doc) == IF doc.hasProgress THEN doc ELSE NewUser

\* the entry PUT /api/words/:id stores for a body
PutEntry(body, now) ==
  Entry(IF body.ease = NoNum \/ body.ease = 0 THEN DefaultEase ELSE body.ease,
        IF IsNumIv(body.interval) THEN body.interval ELSE FracOfInt(0),
        CountOrZero(body.reviewCount),
        IF body.lastReviewed = NullTime THEN now ELSE body.lastReviewed,
        body.nextReview)

\* PUT /api/words/:id: the entry goes into progress.words.map and the user is
\* saved; every error is answered 400 by the catch block
PutWord(userId, id, body, saved) ==
  /\ Quiet
  /\ IF ~isValidObjectId(id) THEN resp' = 400 /\ db' = db
     ELSE IF id \notin Catalog THEN resp' = 404 /\ db' = db
     ELSE IF ~isValidObjectId(userId) THEN resp' = 400 /\ db' = db
     ELSE IF userId \notin DOMAIN db THEN resp' = 404 /\ db' = db
     ELSE IF ~saved THEN resp' = 400 /\ db' = db
     ELSE /\ resp' = 200
          /\ db' = [db EXCEPT ![userId] =
                      [Hydrated(@) EXCEPT !.map = (id :> PutEntry(body, <<0, clock>>))
                                                  @@ Hydrated(db[userId]).map]]
  /\ listed' = NoList
  /\ UNCHANGED <<clock, pc, req, loaded, user, got, prev, updated, cls, reviews, okCount>>

\* ------------------------- POST /review with ease and interval in the body
\* ease and interval of the body: absent or a number
ReviewBodies == {[ease |-> NoNum, interval |-> NaNIv], [ease |-> 280, interval |-> FracOfInt(3)]}
IntervalOr(interval, other) ==
  IF IsNumIv(interval) /\ interval[1] # 0 THEN interval ELSE other
EaseOr(ease, other) == IF ease = NoNum \/ ease = 0 THEN other ELSE ease

\* the map entry after the review: an existing entry is updated in place, a
\* new one starts at reviewCount 1
ReviewedEntry(doc, wordId, ease, interval, now) ==
  IF wordId \in DOMAIN doc.map
  THEN LET existing == doc.map[wordId] IN
       Entry(EaseOr(ease, existing.ease),
             IntervalOr(interval, existing.interval),
             CountOrZero(existing.reviewCount) + 1,
             now,
             AddInterval(now, IntervalOr(interval, FracOfInt(1))))
  ELSE Entry(EaseOr(ease, DefaultEase), IntervalOr(interval, FracOfInt(1)), 1,
             now, AddInterval(now, IntervalOr(interval, FracOfInt(1))))

\* the record pushed to progress.words.history; `existing` is the entry the
\* handler has just updated, when there was one
PushedRecord(doc, wordId, ease, interval, now) ==
  [wordId |-> wordId,
   ease |-> EaseOr(ease, DefaultEase),
   interval |-> IntervalOr(interval, FracOfInt(1)),
   reviewCount |-> IF wordId \in DOMAIN doc.map
                   THEN CountOrZero(ReviewedEntry(doc, wordId, ease, interval, now).reviewCount) + 1
                   ELSE 1,
   lastReviewed |-> now,
   nextReview |-> AddInterval(now, IntervalOr(interval, FracOfInt(1)))]

\* the whole handler; every error but the missing user is answered 500
ReviewBody(userId, wordId, ease, interval, saved) ==
  /\ Quiet
  /\ reviews < MaxReviews
  /\ reviews' = reviews + 1
  /\ IF ~isValidObjectId(userId) THEN resp' = 500 /\ db' = db
     ELSE IF userId \notin DOMAIN db THEN resp' = 404 /\ db' = db
     ELSE IF ~saved THEN resp' = 500 /\ db' = db
     ELSE LET doc == Hydrated(db[userId])
              now == <<0, clock>>
          IN /\ resp' = 200
             /\ db' = [db EXCEPT ![userId] =
                         [doc EXCEPT
                            !.map = (wordId :> ReviewedEntry(doc, wordId, ease, interval, now))
                                    @@ doc.map,
                            !.history = Append(doc.history,
                                               PushedRecord(doc, wordId, ease, interval, now))]]
  /\ listed' = NoList
  /\ UNCHANGED <<clock, pc, req, loaded, user, got, prev, updated, cls, okCount>>

\* Requests of one client that awaits each response before it sends the next
Next ==
  \/ \E u \in UserIds, p \in LegacyDocs : Quiet /\ PutProgress(u, p)
  \/ \E r \in Reqs, u \in TokenIds, w \in BodyWordIds, d \in BodyDifficulties :
       Quiet /\ ReviewStart(r, u, w, d)
  \/ \E r \in Reqs : ReviewFindUser(r)
  \/ \E r \in Reqs, elapsed \in 0..1 : ReviewFindWord(r, elapsed)
  \/ \E r \in Reqs : ReviewSave(r)
  \/ \E r \in Reqs : ReviewSaveFails(r)

Spec == Init /\ [][Next]_vars

\* Well-formed requests of one user that may overlap; PUT /progress stores the
\* document the reviews start from
NextRace ==
  \/ \E u \in UserIds, p \in LegacyDocs : reviews = 0 /\ PutProgress(u, p)
  \/ \E r \in Reqs, u \in UserIds, w \in Catalog, d \in Outcomes : ReviewStart(r, u, w, d)
  \/ \E r \in Reqs : ReviewFindUser(r)
  \/ \E r \in Reqs, elapsed \in 0..1 : ReviewFindWord(r, elapsed)
  \/ \E r \in Reqs : ReviewSave(r)
  \/ \E r \in Reqs : ReviewSaveFails(r)

SpecRace == Init /\ [][NextRace]_vars

\* A fresh account reviewed by one client, one request at a time
NextFresh ==
  \/ \E r \in Reqs, u \in TokenIds, w \in BodyWordIds, d \in BodyDifficulties :
       Quiet /\ ReviewStart(r, u, w, d)
  \/ \E r \in Reqs : ReviewFindUser(r)
  \/ \E r \in Reqs, elapsed \in 0..1 : ReviewFindWord(r, elapsed)
  \/ \E r \in Reqs : ReviewSave(r)
  \/ \E r \in Reqs : ReviewSaveFails(r)

SpecFresh == Init /\ [][NextFresh]_vars

\* The other endpoints that read or write word progress, one request at a
\* time; the documents and entries are stored before the reviews begin
NextApi ==
  \/ \E u \in UserIds, p \in LegacyDocs : reviews = 0 /\ PutProgress(u, p)
  \/ \E u \in TokenIds : List(u)
  \/ \E u \in TokenIds, id \in ParamWordIds, body \in PutBodies, saved \in BOOLEAN :
       reviews = 0 /\ PutWord(u, id, body, saved)
  \/ \E u \in TokenIds, w \in Catalog, b \in ReviewBodies, saved \in BOOLEAN :
       ReviewBody(u, w, b.ease, b.interval, saved)

SpecApi == Init /\ [][NextApi]_vars

\* ------------------------------------------------------------------- claims
\* A request in state "save" has read prev[r], computed updated[r] and applied
\* setProgressEntry to user[r]; user.save() is pending.
Computed(r) == pc[r] = "save"
AtLeastDays(iv, k) == iv[1] >= k * iv[2]

\* C1: outcome 'easy' gives newInterval = max(1, m * previousEase), m the
\* previous interval or 1 when that is 0 or absent, and newEase =
\* min(3.0, previousEase + 0.15); the interval uses the ease from before the
\* increment, so (2.5, 0) becomes (2.65, 2.5).
C1_Easy ==
  \A r \in Reqs : Computed(r) /\ req[r].difficulty = "easy" =>
    LET pe == IF prev[r].ease = NoNum THEN 250 ELSE prev[r].ease
        m == IF prev[r].interval[2] = 0 \/ prev[r].interval[1] = 0
             THEN <<1, 1>> ELSE prev[r].interval
        product == Frac(m[1] * pe, m[2] * 100)
    IN /\ updated[r].ease = (IF pe + 15 > 300 THEN 300 ELSE pe + 15)
       /\ updated[r].interval = (IF product[1] < product[2] THEN <<1, 1>> ELSE product)
       /\ (pe = 250 /\ m = <<1, 1>> => updated[r].ease = 265 /\ updated[r].interval = <<5, 2>>)

C1_Witness ==
  \E r \in Reqs : /\ Computed(r) /\ req[r].difficulty = "easy"
                  /\ prev[r] = DefaultEntry
                  /\ updated[r].ease = 265 /\ updated[r].interval = <<5, 2>>

\* C2: outcome 'hard' stores exactly ease 1.8 and interval 0.1, whatever the
\* previous values were.
C2_Hard ==
  \A r \in Reqs : Computed(r) /\ req[r].difficulty = "hard" =>
    /\ updated[r].ease = 180 /\ updated[r].interval = <<1, 10>>
    /\ user[r].words[req[r].wordId].ease = 180
    /\ user[r].words[req[r].wordId].interval = <<1, 10>>

C2_Witness ==
  \E r \in Reqs : /\ Computed(r) /\ req[r].difficulty = "hard"
                  /\ prev[r].ease = 295 /\ prev[r].interval = <<20, 1>>
                  /\ updated[r].ease = 180 /\ updated[r].interval = <<1, 10>>

\* C3: outcome 'medium' gives newInterval = max(0.5, m * 0.8), m the previous
\* interval or 1 when that is 0 or absent, and newEase =
\* max(1.3, previousEase - 0.15); (2.5, 10) becomes (2.35, 8).
C3_Medium ==
  \A r \in Reqs : Computed(r) /\ req[r].difficulty = "medium" =>
    LET pe == IF prev[r].ease = NoNum THEN 250 ELSE prev[r].ease
        m == IF prev[r].interval[2] = 0 \/ prev[r].interval[1] = 0
             THEN <<1, 1>> ELSE prev[r].interval
        product == Frac(m[1] * 4, m[2] * 5)
    IN /\ updated[r].ease = (IF pe - 15 < 130 THEN 130 ELSE pe - 15)
       /\ updated[r].interval = (IF 2 * product[1] < product[2] THEN <<1, 2>> ELSE product)
       /\ (pe = 250 /\ m = <<10, 1>> => updated[r].ease = 235 /\ updated[r].interval = <<8, 1>>)

C3_Witness ==
  \E r \in Reqs : /\ Computed(r) /\ req[r].difficulty = "medium"
                  /\ prev[r].ease = 250 /\ prev[r].interval = <<10, 1>>
                  /\ updated[r].ease = 235 /\ updated[r].interval = <<8, 1>>

\* C4: every review stores reviewCount = (count of the entry read) + 1, so
\* after n successful sequential reviews of a word that had no entry the stored
\* count is n; a repeated identical request counts again.
C4_ReviewCount ==
  /\ \A r \in Reqs : Computed(r) =>
       /\ updated[r].reviewCount = prev[r].reviewCount + 1
       /\ prev[r].reviewCount = okCount[req[r].wordId]
  /\ \A w \in Catalog :
       IF okCount[w] = 0 THEN w \notin DOMAIN db["u1"].words
       ELSE w \in DOMAIN db["u1"].words /\ db["u1"].words[w].reviewCount = okCount[w]

\* two 'easy' reviews of w1 are the only way to ease 2.8 with interval 6.625
C4_Witness ==
  /\ okCount["w1"] = 2
  /\ "w1" \in DOMAIN db["u1"].words
  /\ db["u1"].words["w1"].reviewCount = 2
  /\ db["u1"].words["w1"].ease = 280
  /\ db["u1"].words["w1"].interval = <<53, 8>>

\* C5: every ease value stored by a review lies in [1.3, 3.0], whatever the
\* previous entry was.
C5_EaseInRange ==
  \A r \in Reqs : Computed(r) => updated[r].ease >= 130 /\ updated[r].ease <= 300

\* C6: overlapping reviews of one user load, mutate and save the whole
\* document with no lock or version check, so a save puts back, for every other
\* word, what its request loaded: the effect of a request that saved in between
\* is lost.
OtherWords(doc, w) == [x \in DOMAIN doc.words \ {w} |-> doc.words[x]]
OtherHistory(doc, w) == SelectSeq(doc.wordsHistory, LAMBDA h : h.wordId # w)

C6_SaveWritesLoadedCopy ==
  [][\A r \in Reqs :
       pc[r] = "save" /\ pc'[r] = "idle" /\ okCount'[req[r].wordId] # okCount[req[r].wordId]
       => /\ OtherWords(db'[req[r].userId], req[r].wordId)
               = OtherWords(loaded[r], req[r].wordId)
          /\ OtherHistory(db'[req[r].userId], req[r].wordId)
               = OtherHistory(loaded[r], req[r].wordId)
          /\ db'[req[r].userId].words[req[r].wordId].reviewCount
               = CountOrZero(PrevOrDefault(getProgressEntry(loaded[r],
                                                            req[r].wordId)).reviewCount) + 1]_vars

\* both words were reviewed with success and only one of them has an entry
C6_Witness ==
  /\ Quiet
  /\ okCount["w1"] = 1 /\ okCount["w2"] = 1
  /\ DOMAIN db["u1"].words = {"w2"}
  /\ FindHistory(db["u1"].wordsHistory, "w1") = 0

\* two reviews of w1 were answered 200 and its stored count is 1
C6_WitnessSameWord ==
  /\ Quiet
  /\ okCount["w1"] = 2
  /\ "w1" \in DOMAIN db["u1"].words
  /\ db["u1"].words["w1"].reviewCount = 1

\* C7: after setProgressEntry(u, w, e) the three representations agree: the
\* map entry of w and the history record used for w carry the same values, and
\* the membership of w in mastered / needsReview is the classification of
\* those values, for any prior content.
C7_RepresentationsAgree ==
  \A r \in Reqs : Computed(r) =>
    LET w == req[r].wordId
        doc == user[r]
        idx == FindHistory(doc.wordsHistory, w)
        e == doc.words[w]
        mast == AtLeastDays(e.interval, 7) /\ e.ease > 260
        needs == e.ease < 200 \/ ~AtLeastDays(e.interval, 7)
    IN /\ w \in DOMAIN doc.words
       /\ e = updated[r]
       /\ idx # 0
       /\ doc.wordsHistory[idx] = HistoryRecord(w, e)
       /\ Has(doc.mastered, w) <=> mast
       /\ Has(doc.needsReview, w) <=> (~mast /\ needs)

\* C8: after setProgressEntry(u, w, e) the word w is in at most one of
\* mastered and needsReview, whatever the two lists held before.
C8_AtMostOneSet ==
  \A r \in Reqs : Computed(r) =>
    ~(Has(user[r].mastered, req[r].wordId) /\ Has(user[r].needsReview, req[r].wordId))

\* C9: an entry is classified mastered iff interval >= 7 and ease > 2.6,
\* needsReview iff ease < 2.0 or interval < 7, neither when interval >= 7 and
\* 2.0 <= ease <= 2.6; the two conditions are never both true.
C9_Classification ==
  \A r \in Reqs : Computed(r) =>
    LET e == updated[r] IN
    /\ cls[r].isMastered <=> (AtLeastDays(e.interval, 7) /\ e.ease > 260)
    /\ cls[r].isNeeds <=> (e.ease < 200 \/ ~AtLeastDays(e.interval, 7))
    /\ (AtLeastDays(e.interval, 7) /\ e.ease >= 200 /\ e.ease <= 260)
         <=> (~cls[r].isMastered /\ ~cls[r].isNeeds)
    /\ ~(cls[r].isMastered /\ cls[r].isNeeds)

\* ease exactly 2.6 with an interval of a week or more: neither class
C9_Witness ==
  \E r \in Reqs : /\ Computed(r)
                  /\ updated[r].ease = 260 /\ AtLeastDays(updated[r].interval, 7)
                  /\ ~cls[r].isMastered /\ ~cls[r].isNeeds
                  /\ ~Has(user[r].mastered, req[r].wordId)
                  /\ ~Has(user[r].needsReview, req[r].wordId)

\* C10: a review whose outcome is none of 'easy', 'medium', 'hard' is
\* rejected with a validation error and leaves the progress state unchanged.
C10_InvalidOutcomeRejected ==
  [][\A r \in Reqs :
       /\ pc[r] # "idle"
       /\ req[r].difficulty \notin Outcomes
       /\ req[r].userId \in DOMAIN db
       /\ req[r].wordId \in Catalog
       => /\ pc'[r] # "save"
          /\ db' = db
          /\ (pc'[r] = "idle" => resp' = 400)]_vars

\* ------------------------------------------------------ claims on the reads
\* the indices of the history records of word w
RecordsOf(h, w) == {i \in 1..Len(h) : h[i].wordId = w}
LastRecordOf(h, w) == CHOOSE i \in RecordsOf(h, w) : \A j \in RecordsOf(h, w) : j <= i
\* a history record in the WordProgress shape
Normalized(rec) ==
  [ease |-> IF rec.ease = NoNum THEN 250 ELSE rec.ease,
   interval |-> IF rec.interval[2] = 0 THEN <<0, 1>> ELSE rec.interval,
   reviewCount |-> IF rec.reviewCount = NoNum THEN 0 ELSE rec.reviewCount,
   lastReviewed |-> rec.lastReviewed,
   nextReview |-> rec.nextReview]
Returned(e) == [isNull |-> FALSE, entry |-> e]
FreshEntry ==
  [ease |-> 250, interval |-> <<0, 1>>, reviewCount |-> 0,
   lastReviewed |-> NullTime, nextReview |-> NullTime]

\* C11: getProgressEntry(u, w) returns the map entry of w when there is one
\* (whatever the history holds); otherwise a history record of w in the
\* WordProgress shape (ease 2.5, interval 0, reviewCount 0 for values that are
\* not numbers); otherwise the default entry.
C11_ReadOrder ==
  \A r \in Reqs : Computed(r) =>
    LET w == req[r].wordId
        doc == loaded[r]
    IN IF w \in DOMAIN doc.words THEN got[r] = Returned(doc.words[w])
       ELSE IF RecordsOf(doc.wordsHistory, w) # {}
       THEN \E i \in RecordsOf(doc.wordsHistory, w) :
              got[r] = Returned(Normalized(doc.wordsHistory[i]))
       ELSE got[r] = Returned(FreshEntry)

\* C12: with no map entry for w and several history records for w,
\* getProgressEntry(u, w) returns the record appended last.
C12_LatestRecord ==
  \A r \in Reqs :
    /\ Computed(r)
    /\ loaded[r].hasProgress
    /\ req[r].wordId \notin DOMAIN loaded[r].words
    /\ Cardinality(RecordsOf(loaded[r].wordsHistory, req[r].wordId)) > 1
    => got[r] = Returned(Normalized(
                  loaded[r].wordsHistory[LastRecordOf(loaded[r].wordsHistory, req[r].wordId)]))

\* C13: setProgressEntry(u, w, e) followed by getProgressEntry(u, w) returns
\* an entry equal to e in ease, interval, reviewCount, lastReviewed, nextReview.
C13_RoundTrip ==
  \A r \in Reqs : Computed(r) =>
    LET back == getProgressEntry(user[r], req[r].wordId) IN
    /\ ~back.isNull
    /\ back.entry.ease = updated[r].ease
    /\ back.entry.interval = updated[r].interval
    /\ back.entry.reviewCount = updated[r].reviewCount
    /\ back.entry.lastReviewed = updated[r].lastReviewed
    /\ back.entry.nextReview = updated[r].nextReview

\* the second review of a word: the entry read back is the new one, not the
\* one the map held
C13_Witness ==
  \E r \in Reqs : /\ Computed(r)
                  /\ req[r].wordId \in DOMAIN loaded[r].words
                  /\ loaded[r].words[req[r].wordId] # updated[r]
                  /\ getProgressEntry(user[r], req[r].wordId) = Returned(updated[r])

\* C14: getProgressEntry never fails: for any user record, also one with no
\* progress data at all, and a never-reviewed word it returns the default
\* entry, never an empty result.
C14_NeverEmpty ==
  \A r \in Reqs : Computed(r) =>
    /\ ~got[r].isNull
    /\ (/\ req[r].wordId \notin DOMAIN loaded[r].words
        /\ RecordsOf(loaded[r].wordsHistory, req[r].wordId) = {}
        => got[r] = Returned(FreshEntry))

\* ----------------------------------------------- claims on the stored state
\* C15: no entry exists for a (user, word) pair before its first review, the
\* first successful review creates it, and once it exists no operation of the
\* API removes it.
C15_EntryNeverRemoved ==
  [][\A u \in UserIds, w \in Catalog :
       /\ (okCount'[w] # okCount[w] => w \in DOMAIN db'[u].words)
       /\ (w \in DOMAIN db[u].words => w \in DOMAIN db'[u].words)]_vars

\* C16: the reviewCount of a stored entry never decreases across the
\* operations that write the user's progress.
C16_CountNeverDecreases ==
  [][\A u \in UserIds, w \in Catalog :
       /\ w \in DOMAIN db[u].words
       /\ w \in DOMAIN db'[u].words
       /\ db[u].words[w].reviewCount # NoNum
       /\ db'[u].words[w].reviewCount # NoNum
       => db'[u].words[w].reviewCount >= db[u].words[w].reviewCount]_vars

\* the step is a successful save of a review of word w
SavedReview(w) == okCount'[w] # okCount[w]

\* C17 as stated: the history log is append-only: across reviews its length
\* never decreases and a record, once appended, is never modified or removed.
C17_AppendOnly ==
  [][\A u \in UserIds, w \in Catalog : SavedReview(w) =>
       /\ Len(db'[u].wordsHistory) >= Len(db[u].wordsHistory)
       /\ \A i \in 1..Len(db[u].wordsHistory) :
            db'[u].wordsHistory[i] = db[u].wordsHistory[i]]_vars

\* C17 amended: across reviews that do not overlap the log never shrinks, no
\* record is removed or moved, and the only record a review changes is the
\* first record of the reviewed word, which it overwrites in place.
C17_UpsertInPlace ==
  [][\A u \in UserIds, w \in Catalog : SavedReview(w) =>
       /\ Len(db'[u].wordsHistory) >= Len(db[u].wordsHistory)
       /\ \A i \in 1..Len(db[u].wordsHistory) :
            /\ db'[u].wordsHistory[i].wordId = db[u].wordsHistory[i].wordId
            /\ (db'[u].wordsHistory[i] # db[u].wordsHistory[i]
                => /\ db[u].wordsHistory[i].wordId = w
                   /\ \A j \in 1..(i - 1) : db[u].wordsHistory[j].wordId # w)]_vars

\* a saved review of w1 overwrote the first of its two records (count 4 became
\* 5, with a next review time) and left the later one in place
C17_Witness ==
  /\ Quiet /\ resp = 200 /\ okCount["w1"] = 1
  /\ Len(db["u1"].wordsHistory) = 3
  /\ db["u1"].wordsHistory[1].wordId = "w1"
  /\ db["u1"].wordsHistory[1].reviewCount = 5
  /\ db["u1"].wordsHistory[1].nextReview # NullTime
  /\ db["u1"].wordsHistory[3].wordId = "w1"
  /\ db["u1"].wordsHistory[3].reviewCount = 5
  /\ db["u1"].wordsHistory[3].nextReview = NullTime

\* the history record setProgressEntry builds from the entry of request r
RecordOf(r) ==
  [wordId |-> req[r].wordId, ease |-> updated[r].ease, interval |-> updated[r].interval,
   reviewCount |-> updated[r].reviewCount, lastReviewed |-> updated[r].lastReviewed,
   nextReview |-> updated[r].nextReview]
AtMostOnePerWord(h) == \A w \in Catalog : Cardinality(RecordsOf(h, w)) <= 1

\* C18: setProgressEntry(u, w, e) upserts the log: a record of w is replaced
\* by e's fields and the length is unchanged; otherwise exactly one record is
\* appended; the records of other words are unchanged; a log with at most one
\* record per word keeps at most one record per word.
C18_Upsert ==
  \A r \in Reqs : Computed(r) =>
    LET before == IF loaded[r].hasProgress THEN loaded[r].wordsHistory ELSE <<>>
        after == user[r].wordsHistory
        w == req[r].wordId
    IN /\ IF RecordsOf(before, w) # {}
          THEN /\ Len(after) = Len(before)
               /\ \E i \in RecordsOf(before, w) :
                    /\ after[i] = RecordOf(r)
                    /\ \A j \in 1..Len(before) : j # i => after[j] = before[j]
          ELSE /\ Len(after) = Len(before) + 1
               /\ after[Len(after)] = RecordOf(r)
               /\ \A j \in 1..Len(before) : after[j] = before[j]
       /\ (AtMostOnePerWord(before) => AtMostOnePerWord(after))

\* a repeated review: the one record of the word is replaced, the log keeps
\* its length
C18_Witness ==
  \E r \in Reqs :
    /\ Computed(r)
    /\ okCount[req[r].wordId] = 1
    /\ Cardinality(RecordsOf(loaded[r].wordsHistory, req[r].wordId)) = 1
    /\ Len(user[r].wordsHistory) = Len(loaded[r].wordsHistory)
    /\ RecordOf(r) \notin {loaded[r].wordsHistory[i] : i \in 1..Len(loaded[r].wordsHistory)}
    /\ RecordOf(r) \in {user[r].wordsHistory[i] : i \in 1..Len(user[r].wordsHistory)}

\* C19: a review persists the map entry, the history record and the list
\* membership by a single save: every stored state, also after a failed save,
\* holds for a word either all three of a successful review or none.
C19_OneUnit ==
  \A w \in Catalog :
    LET doc == db["u1"] IN
    IF w \in DOMAIN doc.words
    THEN /\ okCount[w] > 0
         /\ Cardinality(RecordsOf(doc.wordsHistory, w)) = 1
         /\ \A i \in RecordsOf(doc.wordsHistory, w) :
              /\ doc.wordsHistory[i].ease = doc.words[w].ease
              /\ doc.wordsHistory[i].interval = doc.words[w].interval
              /\ doc.wordsHistory[i].reviewCount = doc.words[w].reviewCount
              /\ doc.wordsHistory[i].lastReviewed = doc.words[w].lastReviewed
              /\ doc.wordsHistory[i].nextReview = doc.words[w].nextReview
         /\ IF AtLeastDays(doc.words[w].interval, 7) /\ doc.words[w].ease > 260
            THEN Occurrences(doc.mastered, w) = 1 /\ Occurrences(doc.needsReview, w) = 0
            ELSE IF doc.words[w].ease < 200 \/ ~AtLeastDays(doc.words[w].interval, 7)
            THEN Occurrences(doc.mastered, w) = 0 /\ Occurrences(doc.needsReview, w) = 1
            ELSE Occurrences(doc.mastered, w) = 0 /\ Occurrences(doc.needsReview, w) = 0
    ELSE /\ okCount[w] = 0
         /\ RecordsOf(doc.wordsHistory, w) = {}
         /\ Occurrences(doc.mastered, w) = 0
         /\ Occurrences(doc.needsReview, w) = 0

\* the first review of w1 was saved, the second one failed at the save: what
\* is stored is the whole of the first review
C19_Witness ==
  /\ Quiet /\ resp = 500 /\ reviews = 2 /\ okCount["w1"] = 1
  /\ "w1" \in DOMAIN db["u1"].words
  /\ db["u1"].words["w1"].reviewCount = 1
  /\ Len(db["u1"].wordsHistory) = 1
  /\ db["u1"].wordsHistory[1].reviewCount = 1

\* Later(a, b): timestamp a is strictly later than b
Later(a, b) == a[1] > b[1] \/ (a[1] = b[1] /\ a[2] > b[2])

\* C20: the nextReview a review stores is its lastReviewed plus the new
\* interval in days, fractional days included, so it is strictly later.
C20_NextReview ==
  \A r \in Reqs : Computed(r) =>
    LET iv == updated[r].interval
        lr == updated[r].lastReviewed
        nr == updated[r].nextReview
        rest == iv[1] % iv[2]
        span == (nr[1] - lr[1]) - (iv[1] \div iv[2])
        ms == span * DAY_MS + nr[2] - lr[2]
    IN /\ iv[2] > 0
       /\ Later(nr, lr)
       /\ span \in {0, 1}
       /\ ms >= 0 /\ ms < DAY_MS
       /\ ms \div (DAY_MS \div 24) = (rest * 24) \div iv[2]
       /\ (DAY_MS % iv[2] = 0 => ms = rest * (DAY_MS \div iv[2]))

\* a stored 'hard' review: 0.1 day is 8 640 000 ms after the review time
C20_Witness ==
  /\ okCount["w1"] > 0
  /\ "w1" \in DOMAIN db["u1"].words
  /\ db["u1"].words["w1"].interval = <<1, 10>>
  /\ db["u1"].words["w1"].lastReviewed # NullTime
  /\ db["u1"].words["w1"].nextReview[1] = db["u1"].words["w1"].lastReviewed[1]
  /\ db["u1"].words["w1"].nextReview[2] = db["u1"].words["w1"].lastReviewed[2] + 8640000

\* ------------------------------------------------------- claims on errors
\* C21: a review whose userId resolves to no user, or whose wordId resolves to
\* no word of the catalog, is answered 404 and leaves every user's stored
\* progress unchanged.
C21_NotFound ==
  [][\A r \in Reqs :
       /\ (pc[r] = "findUser" /\ pc'[r] # "findUser" /\ req[r].userId \notin UserIds
           => pc'[r] = "idle" /\ resp' = 404 /\ db' = db)
       /\ (pc[r] = "findWord" /\ pc'[r] # "findWord" /\ req[r].wordId \notin Catalog
           => pc'[r] = "idle" /\ resp' = 404 /\ db' = db)
       /\ (pc'[r] = "save" => req'[r].userId \in UserIds /\ req'[r].wordId \in Catalog)]_vars

\* a request for an unknown word was answered 404 after an earlier review was
\* stored; the stored progress is that of the earlier review
C21_Witness ==
  /\ Quiet /\ resp = 404 /\ reviews = 2
  /\ okCount["w1"] = 1 /\ okCount["w2"] = 0
  /\ DOMAIN db["u1"].words = {"w1"}
  /\ db["u1"].words["w1"].reviewCount = 1

\* C22: a review with a missing wordId or outcome, or with a malformed user or
\* word identifier, is answered 400 before any lookup is made and leaves the
\* stored state unchanged: a request either passes validation with all of its
\* inputs present and well-formed, or ends at once with 400.
C22_Validation ==
  [][reviews' # reviews =>
       \E r \in Reqs :
         /\ pc[r] = "idle"
         /\ db' = db
         /\ loaded' = loaded
         /\ \/ /\ pc'[r] = "findUser"
               /\ req'[r].wordId # "" /\ req'[r].difficulty # ""
               /\ req'[r].userId \in WellFormedIds /\ req'[r].wordId \in WellFormedIds
            \/ /\ pc'[r] = "idle" /\ resp' = 400]_vars

\* the first request was rejected by validation: nothing is stored
C22_Witness ==
  /\ Quiet /\ resp = 400 /\ reviews = 1
  /\ db["u1"] = NewUser
  /\ \A w \in Catalog : okCount[w] = 0

\* C23: when the save fails the caller gets 500, the handler is over (no
\* retry) and the stored progress is what it was before the request; a save
\* that succeeds is answered 200 and stores the handler's document.
C23_SaveFails ==
  [][\A r \in Reqs : pc[r] = "save" /\ pc'[r] # "save" =>
       /\ pc'[r] = "idle"
       /\ \/ /\ resp' = 200
             /\ db'[req[r].userId] = user[r]
             /\ okCount'[req[r].wordId] = okCount[req[r].wordId] + 1
          \/ /\ resp' = 500
             /\ db' = db
             /\ db'[req[r].userId] = loaded[r]
             /\ okCount' = okCount]_vars

\* the only review so far failed at the save: the account is as it was created
C23_Witness ==
  /\ Quiet /\ resp = 500 /\ reviews = 1
  /\ db["u1"] = NewUser
  /\ \A w \in Catalog : okCount[w] = 0

\* ------------------------------------------- claims on the other endpoints
\* GET / has answered and its response is the most recent one
Listed == listed # NoList

\* C24: a second getProgressEntry(u, w) with no setProgressEntry in between
\* returns what the first one returned, and the calls change no word's map
\* entry, history record or list membership.
C24_ReadOnly ==
  Listed =>
    /\ \A i \in 1..Len(listed.items) :
         getProgressEntry(listed.user, listed.items[i].wordId) = listed.items[i].progress
    /\ \A i \in 1..Len(listed.items) :
         getProgressEntry(EnsureShapes(listed.user), listed.items[i].wordId)
           = getProgressEntry(db["u1"], listed.items[i].wordId)
    /\ listed.user.hasProgress = db["u1"].hasProgress
    /\ listed.user.words = db["u1"].words
    /\ listed.user.wordsHistory = db["u1"].wordsHistory
    /\ listed.user.mastered = db["u1"].mastered
    /\ listed.user.needsReview = db["u1"].needsReview

\* the calls created the missing history container of a user with list
\* members and changed nothing else
C24_Witness ==
  /\ Listed
  /\ db["u1"].absent = {"wordsHistory"}
  /\ listed.user.absent = {}
  /\ listed.user.mastered = <<"w1", "w2", "w2">>
  /\ listed.items[1].progress = Returned(FreshEntry)

\* the entry the specification calls current: the map entry, else the history
\* record appended last, else the default entry
CurrentEntry(doc, w) ==
  IF w \in DOMAIN doc.words THEN Normalized(doc.words[w])
  ELSE IF RecordsOf(doc.wordsHistory, w) # {}
  THEN Normalized(doc.wordsHistory[LastRecordOf(doc.wordsHistory, w)])
  ELSE FreshEntry
FieldsOf(item) ==
  [ease |-> item.ease, interval |-> item.interval, reviewCount |-> item.reviewCount,
   lastReviewed |-> item.lastReviewed, nextReview |-> item.nextReview]

\* C25: GET / returns exactly one item per word of the catalog, each with the
\* user's current progress entry for the word or the default entry when there
\* is none.
C25_ListCurrent ==
  Listed =>
    /\ Len(listed.items) = Cardinality(Catalog)
    /\ \A w \in Catalog :
         Cardinality({i \in 1..Len(listed.items) : listed.items[i].wordId = w}) = 1
    /\ \A i \in 1..Len(listed.items) :
         FieldsOf(listed.items[i]) = CurrentEntry(db["u1"], listed.items[i].wordId)

\* PUT /api/words/:id has stored an entry for word w of user u in this step
StoredByPut(u, w) ==
  /\ reviews' = reviews
  /\ w \in DOMAIN db'[u].map
  /\ (w \in DOMAIN db[u].map => db'[u].map[w] # db[u].map[w])

\* C26: after PUT /api/words/:id has stored an entry for (u, w), the
\* representations agree on it: getProgressEntry(u, w) returns it, the word
\* has a history record with its values and its list membership matches it.
C26_PutAgrees ==
  [][\A u \in UserIds, w \in Catalog : StoredByPut(u, w) =>
       LET e == db'[u].map[w]
           doc == db'[u]
       IN /\ getProgressEntry(doc, w) = Returned(e)
          /\ \E i \in RecordsOf(doc.wordsHistory, w) :
               Normalized(doc.wordsHistory[i]) = Normalized(e)
          /\ (AtLeastDays(e.interval, 7) /\ e.ease > 260
              => Has(doc.mastered, w) /\ ~Has(doc.needsReview, w))]_vars

\* C27: in the handler that takes ease and interval from the body, the
\* history record a review pushes is a snapshot of the map entry the same
\* review writes: same reviewCount, interval and nextReview, for a first
\* review and for a review of an existing entry.
C27_Snapshot ==
  [][\A u \in UserIds :
       reviews' # reviews /\ Len(db'[u].history) = Len(db[u].history) + 1 =>
         LET rec == db'[u].history[Len(db'[u].history)]
         IN /\ rec.wordId \in DOMAIN db'[u].map
            /\ rec.reviewCount = db'[u].map[rec.wordId].reviewCount
            /\ rec.interval = db'[u].map[rec.wordId].interval
            /\ rec.nextReview = db'[u].map[rec.wordId].nextReview]_vars

\* ------------------------------------------------------ claims on the lists
\* C28: after a review with outcome 'hard' the word is a member of
\* needsReview and not a member of mastered, whatever its previous entry and
\* membership were.
C28_HardNeedsReview ==
  \A r \in Reqs : Computed(r) /\ req[r].difficulty = "hard" =>
    /\ \E i \in 1..Len(user[r].needsReview) : user[r].needsReview[i] = req[r].wordId
    /\ \A i \in 1..Len(user[r].mastered) : user[r].mastered[i] # req[r].wordId

Count(list, w) == Cardinality({i \in 1..Len(list) : list[i] = w})
NoDuplicates(list) == \A w \in Catalog : Count(list, w) <= 1
\* the lists the handler starts from
ListsBefore(r) ==
  IF loaded[r].hasProgress
  THEN [mastered |-> loaded[r].mastered, needsReview |-> loaded[r].needsReview]
  ELSE [mastered |-> <<>>, needsReview |-> <<>>]

\* C29: lists without duplicates stay without duplicates across reviews;
\* setProgressEntry removes at most one occurrence of the word from a list, so
\* a list that held it twice still holds it, and it touches no other word.
C29_Lists ==
  \A r \in Reqs : Computed(r) =>
    LET before == ListsBefore(r)
        w == req[r].wordId
    IN /\ (NoDuplicates(before.mastered) /\ NoDuplicates(before.needsReview)
           => NoDuplicates(user[r].mastered) /\ NoDuplicates(user[r].needsReview))
       /\ Count(user[r].mastered, w) >= Count(before.mastered, w) - 1
       /\ Count(user[r].needsReview, w) >= Count(before.needsReview, w) - 1
       /\ (Count(before.mastered, w) >= 2 => Count(user[r].mastered, w) >= 1)
       /\ (Count(before.needsReview, w) >= 2 => Count(user[r].needsReview, w) >= 1)
       /\ \A x \in Catalog \ {w} :
            /\ Count(user[r].mastered, x) = Count(before.mastered, x)
            /\ Count(user[r].needsReview, x) = Count(before.needsReview, x)

\* the word was listed twice as mastered; the review classified it otherwise
\* and one occurrence is left
C29_Witness ==
  \E r \in Reqs :
    /\ Computed(r)
    /\ ~cls[r].isMastered
    /\ Count(loaded[r].mastered, req[r].wordId) = 2
    /\ Count(user[r].mastered, req[r].wordId) = 1

\* C30: a word that is only in the legacy mastered or needsReview list (no
\* map entry, no history record) reads as the default entry, its first review
\* is scheduled as for a never-reviewed word, and its membership is recomputed
\* from the new values: a legacy mastered word reviewed 'easy' or 'medium'
\* leaves mastered and enters needsReview.
C30_LegacyWord ==
  \A r \in Reqs :
    LET w == req[r].wordId IN
    /\ Computed(r)
    /\ loaded[r].hasProgress
    /\ w \notin DOMAIN loaded[r].words
    /\ RecordsOf(loaded[r].wordsHistory, w) = {}
    /\ (Count(loaded[r].mastered, w) > 0 \/ Count(loaded[r].needsReview, w) > 0)
    => /\ got[r] = Returned(FreshEntry)
       /\ updated[r].reviewCount = 1
       /\ (req[r].difficulty = "easy"
           => updated[r].ease = 265 /\ updated[r].interval = <<5, 2>>)
       /\ (req[r].difficulty = "medium"
           => updated[r].ease = 235 /\ updated[r].interval = <<4, 5>>)
       /\ (req[r].difficulty \in {"easy", "medium"} /\ Count(loaded[r].mastered, w) > 0
           => Count(user[r].mastered, w) = 0 /\ Count(user[r].needsReview, w) > 0)

====
